---- MODULE Spec2Model ----
(***************************************************************************)
(* Sequence calculator (src/app.py): the two sequence generators, the two  *)
(* display formatters and the "Calculate Sequence" click handler of main.  *)
(*                                                                         *)
(* Numbers.  first_term and second_param are Python floats (number_input   *)
(* with a float value), num_terms and the loop index are Python ints.  The *)
(* model takes integer-valued floats, on which +, * and the divisions the  *)
(* code performs are exact.  Float +, * and / never raise on overflow, so  *)
(* they do not change the handler's control flow; float ** raises          *)
(* OverflowError when its result leaves the float range, and that is       *)
(* modelled: MaxFloat stands for the largest finite float.                 *)
(*                                                                         *)
(* Strings are sequences of tokens: a literal fragment of an f-string is   *)
(* one token, a number is rendered character by character.  The tokens are *)
(* ASCII: "a[n]" and "a[1]" stand for a with a subscript n and a subscript *)
(* 1, " x " for the multiplication sign.                                   *)
(***************************************************************************)
EXTENDS Integers, Sequences, FiniteSets, TLC

VARIABLES entry, sequence_type, first_term, second_param, num_terms,
          pc, i, sequence, sequence_str, formula, param_name,
          sequence_sum, rendered, errors, exc

vars == <<entry, sequence_type, first_term, second_param, num_terms,
          pc, i, sequence, sequence_str, formula, param_name,
          sequence_sum, rendered, errors, exc>>

(* ------------------------------ bounds -------------------------------- *)

MaxFirst == 2

MaxStep == 3

MaxN == 5

MaxFloat == 50

(* the limit of the handler's validation and of the number_input widget *)
MaxTerms == 1000

ARITHMETIC == "Arithmetic Sequence"

GEOMETRIC == "Geometric Sequence"

(* ------------------------- numeric primitives ------------------------- *)

Abs(x) == IF x < 0 THEN -x ELSE x

Ok(v) == [ok |-> TRUE, val |-> v, err |-> ""]

Raised(e) == [ok |-> FALSE, val |-> 0, err |-> e]

OVERFLOW_ERROR == "(34, 'Numerical result out of range')"

ZERO_DIVISION_ERROR == "float division by zero"

(* x * x * ... (e factors) by repeated multiplication, giving up as soon as
   the magnitude leaves the float range *)
RECURSIVE PowAcc(_, _, _)
PowAcc(x, e, acc) ==
    IF e = 0 THEN Ok(acc)
    ELSE IF Abs(acc * x) > MaxFloat THEN Raised(OVERFLOW_ERROR)
    ELSE PowAcc(x, e - 1, acc * x)

(* a power that tests the zero base before the zero exponent, so that
   0.0 ** 0 is 0.0 *)
FloatPowZeroBaseFirst(x, e) ==
    IF x = 0 THEN Ok(0)
    ELSE IF e = 0 THEN Ok(1)
    ELSE IF x = 1 THEN Ok(1)
    ELSE IF x = -1 THEN Ok(IF e % 2 = 0 THEN 1 ELSE -1)
    ELSE PowAcc(x, e, 1)

(* float ** int with a non-negative exponent: x ** 0 is 1.0 for every x
   (0.0 ** 0 included), 0.0 ** e is 0.0, (+-1.0) ** e is +-1.0, and a result
   beyond the float range raises OverflowError *)
FloatPow(x, e) ==
    IF e = 0 THEN Ok(1)
    ELSE IF x = 0 THEN Ok(0)
    ELSE IF x = 1 THEN Ok(1)
    ELSE IF x = -1 THEN Ok(IF e % 2 = 0 THEN 1 ELSE -1)
    ELSE PowAcc(x, e, 1)

(* float / float: ZeroDivisionError on a zero divisor; the quotients the
   handler forms are exact on the modelled values *)
FloatDiv(a, b) ==
    IF b = 0 THEN Raised(ZERO_DIVISION_ERROR)
    ELSE IF b < 0 THEN Ok((-a) \div (-b))
    ELSE Ok(a \div b)

(* --------------------------- string rendering -------------------------- *)

DigitChar == <<"0", "1", "2", "3", "4", "5", "6", "7", "8", "9">>

RECURSIVE Digits(_)
Digits(n) ==
    IF n < 10 THEN <<DigitChar[n + 1]>>
    ELSE Digits(n \div 10) \o <<DigitChar[(n % 10) + 1]>>

(* str(int) *)
StrInt(n) == IF n < 0 THEN <<"-">> \o Digits(-n) ELSE Digits(n)

(* str(float) of an integer-valued float: "3.0", "-3.0" *)
StrFloat(x) == StrInt(x) \o <<".", "0">>

(* f"{x:.2f}" of an integer-valued float: "3.00" *)
Fmt2f(x) == StrInt(x) \o <<".", "0", "0">>

(* ", ".join([str(term) for term in sequence]): the pieces of the joined
   string in order, a separator between every two terms *)
JoinTerms(seq) ==
    [k \in 1..(IF Len(seq) = 0 THEN 0 ELSE 2 * Len(seq) - 1) |->
        IF k % 2 = 1 THEN StrFloat(seq[(k + 1) \div 2]) ELSE <<", ">>]

(* ----------------------------- generators ------------------------------ *)

(* the term of a loop that counts its index from 1 *)
ArithmeticTermFromOne(first, difference, k) ==
    Ok(first + ((k + 1) * difference))

(* calculate_arithmetic_sequence, line 17 *)
ArithmeticTerm(first, difference, k) == Ok(first + (k * difference))

(* the term with the power taken of the product: (first * ratio) ** k *)
GeometricTermPowerOfProduct(first, ratio, k) == FloatPow(first * ratio, k)

(* calculate_geometric_sequence, line 35: the power is evaluated first and
   may raise *)
GeometricTerm(first, ratio, k) ==
    LET p == FloatPow(ratio, k)
    IN  IF p.ok THEN Ok(first * p.val) ELSE p

(* range(num_terms) still has an element for the loop index k *)
InRange(k, n) == k < n

(* where a generator hands control back: the handler's next statement, or
   the direct caller *)
AfterReturn == IF entry = "main" THEN "format" ELSE "returned"

AfterRaise == IF entry = "main" THEN "except" ELSE "raised"

(* one iteration of "for i in range(num_terms)" of either generator *)
LoopBody(term) ==
    /\ IF term.ok
         THEN /\ sequence' = Append(sequence, term.val)
              /\ i' = i + 1
              /\ UNCHANGED <<pc, exc>>
         ELSE /\ pc' = AfterRaise
              /\ exc' = term.err
              /\ UNCHANGED <<sequence, i>>
    /\ UNCHANGED <<entry, sequence_type, first_term, second_param, num_terms,
                   sequence_str, formula, param_name, sequence_sum,
                   rendered, errors>>

LoopExit ==
    /\ pc' = AfterReturn
    /\ UNCHANGED <<entry, sequence_type, first_term, second_param, num_terms,
                   i, sequence, sequence_str, formula, param_name,
                   sequence_sum, rendered, errors, exc>>

ArithmeticStep ==
    /\ pc = "generate" /\ sequence_type = ARITHMETIC
    /\ InRange(i, num_terms)
    /\ LoopBody(ArithmeticTerm(first_term, second_param, i))

ArithmeticReturn ==
    /\ pc = "generate" /\ sequence_type = ARITHMETIC
    /\ ~InRange(i, num_terms)
    /\ LoopExit

GeometricStep ==
    /\ pc = "generate" /\ sequence_type = GEOMETRIC
    /\ InRange(i, num_terms)
    /\ LoopBody(GeometricTerm(first_term, second_param, i))

GeometricReturn ==
    /\ pc = "generate" /\ sequence_type = GEOMETRIC
    /\ ~InRange(i, num_terms)
    /\ LoopExit

(* ----------------------------- formatters ------------------------------ *)

(* the formula whose minus branch prints the signed difference *)
ArithmeticFormulaSigned(first, difference) ==
    <<"a[n] = ">> \o StrFloat(first) \o
    (IF difference > 0
       THEN <<" + ">> \o StrFloat(difference) \o <<"(n-1)">>
     ELSE IF difference < 0
       THEN <<" - ">> \o StrFloat(difference) \o <<"(n-1)">>
     ELSE <<" + 0(n-1)">>)

(* format_arithmetic_display, lines 55-61 *)
ArithmeticFormula(first, difference) ==
    <<"a[n] = ">> \o StrFloat(first) \o
    (IF difference > 0
       THEN <<" + ">> \o StrFloat(difference) \o <<"(n-1)">>
     ELSE IF difference < 0
       THEN <<" - ">> \o StrFloat(Abs(difference)) \o <<"(n-1)">>
     ELSE <<" + 0(n-1)">>)

(* format_geometric_display, lines 81-84 *)
GeometricFormula(first, ratio) ==
    IF ratio = 1
      THEN <<"a[n] = ">> \o StrFloat(first)
      ELSE <<"a[n] = ">> \o StrFloat(first) \o <<" x ">> \o StrFloat(ratio)
           \o <<"^(n-1)">>

(* format_arithmetic_display(sequence, first_term, common_difference): the
   returned pair, and the caller's list as the call leaves it (the list is
   passed by reference and only read) *)
format_arithmetic_display(seq, first, difference) ==
    [sequence_str |-> JoinTerms(seq),
     formula      |-> ArithmeticFormula(first, difference),
     sequence     |-> seq]

(* format_geometric_display(sequence, first_term, common_ratio) *)
format_geometric_display(seq, first, ratio) ==
    [sequence_str |-> JoinTerms(seq),
     formula      |-> GeometricFormula(first, ratio),
     sequence     |-> seq]

(* ------------------------- the click handler --------------------------- *)

MSG_NOT_POSITIVE == <<"Number of terms must be a positive integer.">>

MSG_TOO_MANY ==
    <<"Number of terms cannot exceed 1000 for performance reasons.">>

MSG_ZERO_RATIO == <<"Common ratio cannot be zero for geometric sequences.">>

MSG_GENERIC == "An error occurred during calculation: "

(* the validation with the upper limit off by one *)
ValidateLimitExclusive(type, param, n) ==
    IF n <= 0 THEN MSG_NOT_POSITIVE
    ELSE IF n >= MaxTerms THEN MSG_TOO_MANY
    ELSE IF type = GEOMETRIC /\ param = 0 THEN MSG_ZERO_RATIO
    ELSE <<>>

(* lines 154-164: the message of the first failing check, <<>> when the
   request passes *)
Validate(type, param, n) ==
    IF n <= 0 THEN MSG_NOT_POSITIVE
    ELSE IF n > MaxTerms THEN MSG_TOO_MANY
    ELSE IF type = GEOMETRIC /\ param = 0 THEN MSG_ZERO_RATIO
    ELSE <<>>

Widget(w, t) == [widget |-> w, text |-> t]

(* lines 151-172: the button fires, the request is validated and either
   rejected (st.error, return) or handed to its generator *)
Click ==
    /\ pc = "button"
    /\ LET msg == Validate(sequence_type, second_param, num_terms)
       IN  IF msg # <<>>
             THEN /\ errors' = Append(errors, msg)
                  /\ pc' = "done"
             ELSE /\ pc' = "generate"
                  /\ UNCHANGED errors
    /\ UNCHANGED <<entry, sequence_type, first_term, second_param, num_terms,
                   i, sequence, sequence_str, formula, param_name,
                   sequence_sum, rendered, exc>>

(* lines 169-170 / 173-174 after the generator has returned: the formatter
   call and the parameter's label *)
Format ==
    /\ pc = "format"
    /\ LET r == IF sequence_type = ARITHMETIC
                  THEN format_arithmetic_display(sequence, first_term,
                                                 second_param)
                  ELSE format_geometric_display(sequence, first_term,
                                                second_param)
       IN  /\ sequence_str' = r.sequence_str
           /\ formula' = r.formula
           /\ sequence' = r.sequence
    /\ param_name' = IF sequence_type = ARITHMETIC
                       THEN "Common Difference" ELSE "Common Ratio"
    /\ pc' = "display"
    /\ UNCHANGED <<entry, sequence_type, first_term, second_param, num_terms,
                   i, sequence_sum, rendered, errors, exc>>

(* line 181: formula.replace of the subscript glyphs by their LaTeX forms *)
Latex(f) ==
    [k \in 1..Len(f) |->
        IF f[k] = "a[n] = " THEN "a_n = "
        ELSE IF f[k] = "a[1] = " THEN "a_1 = "
        ELSE f[k]]

(* sequence[-1] *)
Last(seq) == seq[Len(seq)]

(* lines 177-207: everything rendered before the sum is computed *)
ResultWidgets ==
    << Widget("header", <<"Results">>),
       Widget("subheader", <<"General Formula">>),
       Widget("latex", Latex(formula)),
       Widget("metric First Term", StrFloat(first_term)),
       Widget("metric " \o param_name, StrFloat(second_param)),
       Widget("metric Number of Terms", StrInt(num_terms)),
       Widget("subheader", <<sequence_type>>),
       Widget("code", sequence_str),
       Widget("subheader", <<"Additional Information">>),
       Widget("metric Last Term", StrFloat(Last(sequence))) >>

Display ==
    /\ pc = "display"
    /\ rendered' = rendered \o ResultWidgets
    /\ pc' = "sum"
    /\ UNCHANGED <<entry, sequence_type, first_term, second_param, num_terms,
                   i, sequence, sequence_str, formula, param_name,
                   sequence_sum, errors, exc>>

(* the sum with a floor division: (num_terms // 2) * (first + last) *)
ArithmeticSumFloorDivision(first, n, seq) ==
    Ok((n \div 2) * (first + Last(seq)))

(* line 213: (num_terms / 2) * (first_term + sequence[-1]); num_terms / 2 is
   a true division, so the factor is a multiple of one half and the product
   is num_terms * (first_term + last) halved *)
ArithmeticSum(first, n, seq) == Ok((n * (first + Last(seq))) \div 2)

(* the sum without the branch for ratio 1 *)
GeometricSumWithoutBranch(first, ratio, n) ==
    LET p == FloatPow(ratio, n)
    IN  IF p.ok THEN FloatDiv(first * (p.val - 1), ratio - 1) ELSE p

(* lines 216-219 *)
GeometricSum(first, ratio, n) ==
    IF ratio = 1 THEN Ok(first * n)
    ELSE LET p == FloatPow(ratio, n)
         IN  IF p.ok THEN FloatDiv(first * (p.val - 1), ratio - 1) ELSE p

(* lines 211-221: the sum and its metric, or the exception the power or
   the division raises *)
Sum ==
    /\ pc = "sum"
    /\ LET s == IF sequence_type = ARITHMETIC
                  THEN ArithmeticSum(first_term, num_terms, sequence)
                  ELSE GeometricSum(first_term, second_param, num_terms)
       IN  IF s.ok
             THEN /\ sequence_sum' = s.val
                  /\ rendered' = Append(rendered,
                                   Widget("metric Sum of Sequence",
                                          Fmt2f(s.val)))
                  /\ pc' = "steps"
                  /\ UNCHANGED exc
             ELSE /\ exc' = s.err
                  /\ pc' = "except"
                  /\ UNCHANGED <<sequence_sum, rendered>>
    /\ UNCHANGED <<entry, sequence_type, first_term, second_param, num_terms,
                   i, sequence, sequence_str, formula, param_name, errors>>

Min(a, b) == IF a < b THEN a ELSE b

(* lines 228-237: the line written for loop index k (0-based) *)
StepLine(type, first, param, seq, k) ==
    <<"**Term ">> \o StrInt(k + 1) \o <<":** ">> \o
    (IF k = 0
       THEN <<"a[1] = ">> \o StrFloat(first)
     ELSE IF type = ARITHMETIC
       THEN <<"a">> \o StrInt(k + 1) \o <<" = ">> \o StrFloat(first)
            \o <<" + ">> \o StrFloat(param) \o <<" x ">> \o StrInt(k)
            \o <<" = ">> \o StrFloat(seq[k + 1])
     ELSE <<"a">> \o StrInt(k + 1) \o <<" = ">> \o StrFloat(first)
          \o <<" x ">> \o StrFloat(param) \o <<"^">> \o StrInt(k)
          \o <<" = ">> \o StrFloat(seq[k + 1]))

(* the block without its guard num_terms >= 3 *)
StepWidgetsUnguarded(type, first, param, n, seq) ==
    <<[widget |-> "subheader",
       text |-> <<"Step-by-Step Calculation (First 3 Terms)">>]>> \o
    [k \in 1..(IF n < 3 THEN n ELSE 3) |->
        [widget |-> "write",
         text |-> StepLine(type, first, param, seq, k - 1)]]

(* lines 224-237: the widgets of the step-by-step block *)
StepWidgets(type, first, param, n, seq) ==
    IF n >= 3
      THEN <<Widget("subheader",
                    <<"Step-by-Step Calculation (First 3 Terms)">>)>> \o
           [k \in 1..Min(3, n) |->
               Widget("write", StepLine(type, first, param, seq, k - 1))]
      ELSE <<>>

Steps ==
    /\ pc = "steps"
    /\ rendered' = rendered \o StepWidgets(sequence_type, first_term,
                                           second_param, num_terms, sequence)
    /\ pc' = "done"
    /\ UNCHANGED <<entry, sequence_type, first_term, second_param, num_terms,
                   i, sequence, sequence_str, formula, param_name,
                   sequence_sum, errors, exc>>

(* lines 239-240 *)
Except ==
    /\ pc = "except"
    /\ errors' = Append(errors, <<MSG_GENERIC, exc>>)
    /\ pc' = "done"
    /\ UNCHANGED <<entry, sequence_type, first_term, second_param, num_terms,
                   i, sequence, sequence_str, formula, param_name,
                   sequence_sum, rendered, exc>>

(* ------------------------------ requests ------------------------------- *)

FirstTerms == (-MaxFirst)..MaxFirst

Params == (-MaxStep)..MaxStep

(* requests over the whole grid of small term counts, the count just past
   the limit, and a few requests with exactly MaxTerms terms *)
Requests ==
    [first : FirstTerms, param : Params,
     n : ((-1)..MaxN) \cup {MaxTerms + 1}]
    \cup [first : {1}, param : {-1, 0, 1, MaxStep}, n : {MaxTerms}]

(* the program is entered by the button of main, or by a direct call of one
   of the generators; a direct call of a list of more than MaxTerms terms
   is left out of the inputs *)
Init ==
    /\ entry \in {"main", "calculate_arithmetic_sequence",
                  "calculate_geometric_sequence"}
    /\ sequence_type \in {ARITHMETIC, GEOMETRIC}
    /\ entry = "calculate_arithmetic_sequence" => sequence_type = ARITHMETIC
    /\ entry = "calculate_geometric_sequence" => sequence_type = GEOMETRIC
    /\ \E q \in Requests :
          /\ entry # "main" => q.n <= MaxTerms
          /\ first_term = q.first
          /\ second_param = q.param
          /\ num_terms = q.n
    /\ pc = IF entry = "main" THEN "button" ELSE "generate"
    /\ i = 0
    /\ sequence = <<>>
    /\ sequence_str = <<>>
    /\ formula = <<>>
    /\ param_name = ""
    /\ sequence_sum = 0
    /\ rendered = <<>>
    /\ errors = <<>>
    /\ exc = ""

Next ==
    \/ Click
    \/ ArithmeticStep
    \/ ArithmeticReturn
    \/ GeometricStep
    \/ GeometricReturn
    \/ Format
    \/ Display
    \/ Sum
    \/ Steps
    \/ Except

Spec == Init /\ [][Next]_vars

(* ======================= properties of the program ===================== *)

(* the mathematical power r^k, by squaring *)
RECURSIVE Exp(_, _)
Exp(r, k) ==
    IF k = 0 THEN 1
    ELSE LET h == Exp(r, k \div 2)
         IN  IF k % 2 = 0 THEN h * h ELSE h * h * r

(* seq[lo] + ... + seq[hi], by halving the range *)
RECURSIVE SumRange(_, _, _)
SumRange(seq, lo, hi) ==
    IF lo > hi THEN 0
    ELSE IF lo = hi THEN seq[lo]
    ELSE LET mid == (lo + hi) \div 2
         IN  SumRange(seq, lo, mid) + SumRange(seq, mid + 1, hi)

SumOfTerms(seq) == SumRange(seq, 1, Len(seq))

ValidCount == 1 <= num_terms /\ num_terms <= MaxTerms

DirectArithmetic == entry = "calculate_arithmetic_sequence"

DirectGeometric == entry = "calculate_geometric_sequence"

(* C1: calculate_arithmetic_sequence with 1 <= num_terms <= 1000, called
   directly or by the handler, never raises, every term it has appended at
   0-based index k equals first_term + k * common_difference (so index 0
   holds first_term), and the list it returns has exactly num_terms terms *)
C1_ArithmeticTerms ==
    (sequence_type = ARITHMETIC /\ ValidCount) =>
        /\ pc \notin {"raised", "except"}
        /\ Len(sequence) = IF pc \in {"button", "generate"}
                             THEN i ELSE num_terms
        /\ \A k \in 1..Len(sequence) :
              sequence[k] = first_term + (k - 1) * second_param

C1_Witness ==
    /\ DirectArithmetic /\ pc = "returned"
    /\ num_terms >= 3 /\ second_param < 0 /\ first_term # 0
    /\ Len(sequence) = num_terms

(* C2 as stated: a direct call of calculate_geometric_sequence with 1 <=
   num_terms <= 1000 and a non-zero ratio always returns, and returns
   num_terms terms, the term at 0-based index k being first_term * ratio^k *)
C2_AlwaysReturns ==
    (DirectGeometric /\ ValidCount /\ second_param # 0) =>
        /\ pc # "raised"
        /\ pc = "returned" =>
              /\ Len(sequence) = num_terms
              /\ \A k \in 1..Len(sequence) :
                    sequence[k] = first_term * Exp(second_param, k - 1)

(* C2 amended: the call either returns exactly num_terms terms, the term at
   0-based index k being first_term * ratio^k with ratio^k inside the float
   range, or raises OverflowError at the first index k < num_terms whose
   power ratio^k leaves the float range, returning no list *)
C2_TermsOrOverflow ==
    (DirectGeometric /\ ValidCount /\ second_param # 0) =>
        /\ \A k \in 1..Len(sequence) :
              /\ Abs(Exp(second_param, k - 1)) <= MaxFloat
              /\ sequence[k] = first_term * Exp(second_param, k - 1)
        /\ Len(sequence) = i
        /\ pc = "returned" => Len(sequence) = num_terms
        /\ pc = "raised" =>
              /\ exc = OVERFLOW_ERROR
              /\ i < num_terms
              /\ Abs(Exp(second_param, i)) > MaxFloat

C2_Witness ==
    /\ DirectGeometric /\ pc = "returned"
    /\ num_terms >= 3 /\ second_param <= -2 /\ first_term # 0
    /\ Len(sequence) = num_terms

Invalid ==
    \/ num_terms <= 0
    \/ num_terms > MaxTerms
    \/ (sequence_type = GEOMETRIC /\ second_param = 0)

(* the handler has returned from a failed check: one validation message,
   no generator or formatter has run, nothing is rendered *)
Rejected ==
    /\ pc = "done"
    /\ Len(errors) = 1
    /\ errors[1] \in {MSG_NOT_POSITIVE, MSG_TOO_MANY, MSG_ZERO_RATIO}
    /\ i = 0 /\ sequence = <<>>
    /\ sequence_str = <<>> /\ formula = <<>>
    /\ rendered = <<>>

(* C3: once the button has fired, the request is rejected exactly when
   num_terms <= 0, num_terms > 1000, or the kind is geometric with ratio 0,
   each with its own message; every other request is in its generator or
   past it, and shows no validation message *)
C3_RejectedIffInvalid ==
    (entry = "main" /\ pc # "button") =>
        /\ Invalid <=> Rejected
        /\ Rejected =>
              errors[1] = (IF num_terms <= 0 THEN MSG_NOT_POSITIVE
                           ELSE IF num_terms > MaxTerms THEN MSG_TOO_MANY
                           ELSE MSG_ZERO_RATIO)
        /\ ~Invalid =>
              /\ pc = "generate" \/ Len(sequence) >= 1
              /\ \A k \in 1..Len(errors) :
                    errors[k] \notin
                        {MSG_NOT_POSITIVE, MSG_TOO_MANY, MSG_ZERO_RATIO}

C3_Witness ==
    /\ entry = "main" /\ pc = "done"
    /\ num_terms = MaxTerms /\ sequence_type = ARITHMETIC
    /\ second_param = 0
    /\ errors = <<>> /\ Len(sequence) = MaxTerms

(* the handler finished without any error message *)
Completed == entry = "main" /\ pc = "done" /\ errors = <<>>

(* C4: every accepted arithmetic request gets through the handler without
   an exception, and the sum the handler computed equals the sum of all
   terms of the generated sequence *)
C4_ArithmeticSumIsSumOfTerms ==
    (entry = "main" /\ sequence_type = ARITHMETIC) =>
        /\ pc # "except" /\ exc = ""
        /\ pc \in {"steps", "done"} /\ ~Invalid =>
              /\ Len(sequence) = num_terms
              /\ sequence_sum = SumOfTerms(sequence)

C4_Witness ==
    /\ Completed /\ sequence_type = ARITHMETIC
    /\ num_terms = 3 /\ second_param < 0 /\ first_term > 0
    /\ sequence_sum = SumOfTerms(sequence)

(* C5 as stated: every accepted geometric request whose sequence was
   generated ends with a computed sum, equal to the sum of all terms of the
   generated sequence, and no division by zero *)
C5_GeometricSumIsSumOfTerms ==
    (entry = "main" /\ sequence_type = GEOMETRIC /\ pc = "done"
     /\ ~Invalid /\ Len(sequence) = num_terms) =>
        /\ errors = <<>>
        /\ sequence_sum = SumOfTerms(sequence)

(* the shapes a formula can have *)
ShapePlus(first, step) ==
    <<"a[n] = ">> \o StrFloat(first) \o <<" + ">> \o StrFloat(step)
    \o <<"(n-1)">>

ShapeMinus(first, step) ==
    <<"a[n] = ">> \o StrFloat(first) \o <<" - ">> \o StrFloat(Abs(step))
    \o <<"(n-1)">>

ShapeZero(first) == <<"a[n] = ">> \o StrFloat(first) \o <<" + 0(n-1)">>

ShapeConstant(first) == <<"a[n] = ">> \o StrFloat(first)

ShapePower(first, step) ==
    <<"a[n] = ">> \o StrFloat(first) \o <<" x ">> \o StrFloat(step)
    \o <<"^(n-1)">>

ArithmeticShapes ==
    {ShapePlus(first_term, second_param),
     ShapeMinus(first_term, second_param), ShapeZero(first_term)}

GeometricShapes ==
    {ShapeConstant(first_term), ShapePower(first_term, second_param)}

Formatted == entry = "main" /\ pc \in {"display", "sum", "steps"}

FormulaHasItsShape ==
    Formatted =>
        /\ sequence_type = ARITHMETIC =>
              /\ formula \in ArithmeticShapes
              /\ second_param > 0 =>
                    formula = ShapePlus(first_term, second_param)
              /\ second_param < 0 =>
                    formula = ShapeMinus(first_term, second_param)
              /\ second_param = 0 => formula = ShapeZero(first_term)
        /\ sequence_type = GEOMETRIC =>
              /\ formula \in GeometricShapes
              /\ second_param = 1 => formula = ShapeConstant(first_term)
              /\ second_param # 1 =>
                    formula = ShapePower(first_term, second_param)
        /\ \A k \in 1..(Len(formula) - 1) :
              formula[k] = " - " => formula[k + 1] # "-"

(* C6: the formula a formatter returns has the shape its kind and the sign
   of the step select (plus, minus with the magnitude, zero; constant,
   power), a minus sign is never followed by a second sign, and the
   formatter call leaves the sequence as it was *)
C6_FormulaShapes ==
    /\ []FormulaHasItsShape
    /\ [][pc = "format" => sequence' = sequence]_vars

C6_Witness ==
    /\ Formatted /\ sequence_type = ARITHMETIC /\ second_param < -1
    /\ first_term < 0
    /\ formula = ShapeMinus(first_term, second_param)

(* C7 as stated: a handler that ended in an exception shows the generic
   message alone, and has rendered nothing *)
C7_NoPartialResults ==
    (entry = "main" /\ pc = "done" /\ exc # "") =>
        /\ errors = << <<MSG_GENERIC, exc>> >>
        /\ rendered = <<>>

(* the step-by-step lines rendered so far, in order *)
IsLine(w) == w.widget = "write"

Lines == SelectSeq(rendered, IsLine)

(* the handler is over for an accepted request, with or without exception *)
AcceptedDone == entry = "main" /\ pc = "done" /\ ~Invalid

(* C8 as stated: an accepted request renders min(3, num_terms) step lines *)
C8_MinThreeLines ==
    (AcceptedDone /\ errors = <<>>) => Len(Lines) = Min(3, num_terms)

(* the tail of a rendered text *)
EndsWith(text, suffix) ==
    /\ Len(text) >= Len(suffix)
    /\ SubSeq(text, Len(text) - Len(suffix) + 1, Len(text)) = suffix

(* C8 amended: an accepted request renders exactly three step lines when
   num_terms >= 3 and the handler raised no exception, and none otherwise
   (num_terms of 1 or 2, or a generation or sum that raised); line 1 shows
   first_term and line k + 1 shows the generated term of index k *)
C8_ThreeLinesOrNone ==
    AcceptedDone =>
        /\ Len(Lines) = (IF num_terms >= 3 /\ exc = "" THEN 3 ELSE 0)
        /\ \A k \in 1..Len(Lines) :
              /\ SubSeq(Lines[k].text, 1, 3) =
                     <<"**Term ">> \o StrInt(k) \o <<":** ">>
              /\ k = 1 =>
                    Lines[k].text = <<"**Term ", "1", ":** ", "a[1] = ">>
                                    \o StrFloat(first_term)
              /\ k > 1 =>
                    /\ EndsWith(Lines[k].text,
                                <<" = ">> \o StrFloat(sequence[k]))
                    /\ sequence[k] =
                          (IF sequence_type = ARITHMETIC
                             THEN first_term + (k - 1) * second_param
                             ELSE first_term * Exp(second_param, k - 1))

C8_Witness ==
    /\ AcceptedDone /\ errors = <<>> /\ num_terms >= 3
    /\ sequence_type = GEOMETRIC /\ second_param < -1
    /\ Len(Lines) = 3

(* C9 as stated: a direct call of calculate_geometric_sequence with ratio 0
   and num_terms >= 1 returns num_terms terms that are all 0, the term at
   index 0 included *)
C9_ConstantZero ==
    (DirectGeometric /\ second_param = 0 /\ num_terms >= 1) =>
        /\ pc # "raised"
        /\ pc = "returned" =>
              /\ Len(sequence) = num_terms
              /\ \A k \in 1..Len(sequence) : sequence[k] = 0

(* C9 amended: the call validates nothing, raises nothing and returns
   num_terms terms of which the term at index 0 equals first_term (0 ** 0
   is 1) and every later term equals 0 *)
C9_FirstTermThenZeros ==
    (DirectGeometric /\ second_param = 0 /\ num_terms >= 1) =>
        /\ pc \in {"generate", "returned"}
        /\ pc = "returned" => Len(sequence) = num_terms
        /\ \A k \in 1..Len(sequence) :
              sequence[k] = (IF k = 1 THEN first_term ELSE 0)

C9_Witness ==
    /\ DirectGeometric /\ second_param = 0 /\ pc = "returned"
    /\ num_terms >= 2 /\ first_term # 0
    /\ sequence[1] = first_term /\ sequence[2] = 0

(* a request for a constant sequence: ratio 1, or difference 0 *)
ConstantRequest ==
    /\ entry = "main" /\ ValidCount
    /\ \/ sequence_type = GEOMETRIC /\ second_param = 1
       \/ sequence_type = ARITHMETIC /\ second_param = 0

(* C10: a geometric request with ratio 1 and an arithmetic request with
   difference 0 behave as the same function of first_term and num_terms:
   neither raises, both generate num_terms copies of first_term, show
   first_term as the last term and compute the sum first_term * num_terms *)
C10_ConstantSequencesAgree ==
    ConstantRequest =>
        /\ pc # "except" /\ exc = "" /\ errors = <<>>
        /\ \A k \in 1..Len(sequence) : sequence[k] = first_term
        /\ pc \in {"format", "display", "sum", "steps", "done"} =>
              Len(sequence) = num_terms
        /\ pc \in {"sum", "steps", "done"} =>
              rendered[10] = Widget("metric Last Term", StrFloat(first_term))
        /\ pc \in {"steps", "done"} =>
              /\ sequence_sum = first_term * num_terms
              /\ rendered[11] = Widget("metric Sum of Sequence",
                                       Fmt2f(first_term * num_terms))

C10_Witness ==
    /\ ConstantRequest /\ sequence_type = GEOMETRIC /\ pc = "done"
    /\ num_terms = MaxTerms /\ first_term # 0
    /\ sequence_sum = first_term * MaxTerms

====
